---- MODULE Spec2Model ----
(***************************************************************************)
(* Token creation bot: the scheduler (runScheduler / executeTask), the     *)
(* wallet lock table (WalletLockManager), the token workflow               *)
(* (executeTokenCreation / withRetry) and the JSON state store guarded by  *)
(* StateLockManager (loadState / saveState / updateState / resetState).    *)
(*                                                                         *)
(* JavaScript runs every callback to completion, so each action below is   *)
(* one synchronous stretch of code between two awaits.                     *)
(***************************************************************************)
EXTENDS Integers, Sequences, FiniteSets, TLC

----------------------------------------------------------------------------
(* Bounds of the model *)

MaxTasks == 2       \* config.totalTokensToCreate of the modelled run
DurationMs == 2     \* config.durationHours * 60 * 60 * 1000, in clock ticks
MaxExt == 3         \* callers of the state store when it is used on its own
MaxAttempts == 4    \* largest maxRetries withRetry is called with on its own

(* Values the configuration is drawn from *)
ExecutionModes == {"parallel", "sequential"}
SellPercentages == {0, 100}
MaxRetriesChoices == {0, 2}
DelayRandomnessPercents == {0, 100}
NumWalletsChoices == {1, 2}
MetadataPool == <<"M1">>
RetryDelays == {1, 5}
ErrorMessages == {"e1", "e2"}

\* every configuration; an option the mode does not read is held at one value
Configs ==
    {c \in [executionMode : ExecutionModes,
            sellPercentage : SellPercentages,
            maxRetries : MaxRetriesChoices,
            delayRandomness : DelayRandomnessPercents,
            numWallets : NumWalletsChoices,
            totalTokensToCreate : {MaxTasks}] :
        /\ c.sellPercentage = 0 => c.maxRetries = 2
        /\ c.executionMode = "parallel" => c.delayRandomness = 0}

----------------------------------------------------------------------------
(* Identities *)

\* the ids of the tasks of a run; a run started with MaxTasks + 2 tokens to
\* create has two tasks more than the configurations in Configs
TaskIds == 0 .. (MaxTasks + 1)
Wallets == {n - 1 : n \in NumWalletsChoices}
RunnerId == <<"run", 0>>
TaskCaller(i) == <<"task", i>>
ExtCallers == {<<"ext", k>> : k \in 1 .. MaxExt}
ResetCaller == <<"ext", 1>>
Callers == {TaskCaller(i) : i \in TaskIds} \cup {RunnerId} \cup ExtCallers

----------------------------------------------------------------------------
(* BotState records and the state file *)

SetField(s, k, v) == [x \in DOMAIN s \cup {k} |-> IF x = k THEN v ELSE s[x]]

HasField(s, k) == k \in DOMAIN s

EmptyState == [tokensCreated |-> 0, createdTokens |-> <<>>]

NoFile == [kind |-> "absent"]

JSONStringify(s) == [kind |-> "json", value |-> s]

JSONParse(content) == content.value

existsSync(f) == f.kind # "absent"

loadState(f) == IF ~existsSync(f) THEN EmptyState ELSE JSONParse(f)

\* a state file whose content JSON.parse rejects
CorruptFile == [kind |-> "corrupt"]

JSONParseThrows(content) == content.kind = "corrupt"

loadResultCatches(f) ==
    IF ~existsSync(f) \/ JSONParseThrows(f)
      THEN [threw |-> FALSE, state |-> EmptyState]
      ELSE [threw |-> FALSE, state |-> JSONParse(f)]

\* loadState() with its outcome: the error of JSON.parse is not caught
loadResult(f) ==
    IF existsSync(f) /\ JSONParseThrows(f)
      THEN [threw |-> TRUE, state |-> EmptyState]
      ELSE [threw |-> FALSE, state |-> loadState(f)]

writeFileSync(s) == JSONStringify(s)

----------------------------------------------------------------------------
(* The updater executeTokenCreation passes to updateState, and a updater   *)
(* that fails after it has touched the record                              *)

TokenRecord(tokenAddress, metadata, t, walletIndex) ==
    [tokenAddress |-> tokenAddress, metadata |-> metadata,
     createdAt |-> t, walletIndex |-> walletIndex]

CreationUpdaterSkipsPush(m, s, t) ==
    SetField([s EXCEPT !.tokensCreated = @ + 1], "lastCreatedAt", t)

CreationUpdater(m, s, t) ==
    SetField([s EXCEPT !.tokensCreated = @ + 1,
                       !.createdTokens = Append(@,
                            TokenRecord(m.tokenAddress, m.metadata, t, m.walletIndex))],
             "lastCreatedAt", t)

NoUpdater == [kind |-> "none"]

ThrowingUpdater == [kind |-> "throw"]

IncUpdater(addr, meta, w) ==
    [kind |-> "inc", tokenAddress |-> addr, metadata |-> meta, walletIndex |-> w]

UpdaterThrows(m) == m.kind = "throw"

ApplyUpdater(m, s, t) ==
    IF m.kind = "inc" THEN CreationUpdater(m, s, t)
    ELSE [s EXCEPT !.tokensCreated = @ + 1]

----------------------------------------------------------------------------
(* State *)

VARIABLES
    cfg,          \* config: executionMode, sellPercentage, maxRetries, totalTokensToCreate
    now,          \* Date.now()
    file,         \* content of STATE_FILE
    locked,       \* StateLockManager.locked
    queue,        \* StateLockManager.queue (callers whose resolve is queued)
    call,         \* per caller: the saveState / updateState call in progress
    locks,        \* WalletLockManager.locks
    runPc,        \* position of runScheduler
    mem,          \* runScheduler's in-memory copy of the state
    tasks,        \* the generated TokenTask list, by tokenIndex
    sortedTasks,  \* tokenIndex values in ascending scheduledTime order
    seqPos,       \* position of the sequential loop in sortedTasks
    tpc,          \* per task: position of executeTask / executeTokenCreation
    attempt,      \* per task: withRetry's attempt
    creates,      \* history: per task, the createToken invocations so far
    pollHist,     \* history: the tasks polling for a wallet, in order of arrival,
                  \* and the tasks that saw a later arrival acquire their wallet
    summary,      \* the execution summary of parallel mode
    nextTicket,   \* history: number of acquire() calls so far, plus one
    ticket,       \* history: per caller not yet in its body, the rank of its acquire() call
    lastEntered,  \* history: the rank of the caller whose body started last
    writes,       \* history: per caller, writes of the state file it made
    fileAtEnter,  \* history: per caller in its body, the file when the body started
    file0,        \* history: the file when the process started
    resumed,      \* history: the process was stopped and started again
    prior,        \* history: what the stopped process had done
    rt,           \* a withRetry call on its own: arguments, position, history
    gen,          \* a generateTasks call on its own: arguments and result
    lk            \* WalletLockManager called on its own: the last call, history

storeVars == <<file, locked, queue, call, nextTicket, ticket, lastEntered, writes,
               fileAtEnter>>
runVars == <<locks, runPc, mem, tasks, sortedTasks, seqPos, tpc, attempt, creates,
             pollHist, summary>>
\* what no step of a running process changes: the configuration, and the
\* history of the process that ran before
envVars == <<cfg, resumed, prior, rt, gen, lk>>
vars == <<envVars, now, file0, storeVars, runVars>>

\* waited: history, the call found the lock taken and was queued
IdleFrame == [pc |-> "idle", op |-> "none", updater |-> NoUpdater,
              arg |-> EmptyState, st |-> EmptyState, err |-> "none",
              waited |-> FALSE]

----------------------------------------------------------------------------
(* StateLockManager *)

AcquireGrantsAlways(isLocked) == TRUE

\* acquire(): the lock is taken at once iff it is not locked
AcquireGrants(isLocked) == ~isLocked

ReleaseNextLIFO(q) == Len(q)

\* release(): queue.shift() takes the oldest waiter
ReleaseNext(q) == 1

RemoveAt(q, k) == [j \in 1 .. (Len(q) - 1) |-> IF j < k THEN q[j] ELSE q[j + 1]]

ReleaseLockedUnlocks(q) == FALSE

\* release(): locked stays true when the lock is passed to a waiter
ReleaseLocked(q) == q # <<>>

\* saveState(state) / updateState(updater) up to the first await:
\* withLock calls acquire()
StoreCall(c, op, updater, arg) ==
    /\ call[c].pc = "idle"
    /\ IF AcquireGrants(locked)
         THEN /\ locked' = TRUE
              /\ queue' = queue
              /\ call' = [call EXCEPT ![c] = [pc |-> "granted", op |-> op,
                              updater |-> updater, arg |-> arg,
                              st |-> EmptyState, err |-> "none",
                              waited |-> FALSE]]
         ELSE /\ locked' = locked
              /\ queue' = Append(queue, c)
              /\ call' = [call EXCEPT ![c] = [pc |-> "queued", op |-> op,
                              updater |-> updater, arg |-> arg,
                              st |-> EmptyState, err |-> "none",
                              waited |-> TRUE]]
    /\ ticket' = [ticket EXCEPT ![c] = nextTicket]
    /\ nextTicket' = nextTicket + 1
    /\ UNCHANGED <<file, lastEntered, writes, fileAtEnter>>

BodyWritesAlways(threw) == TRUE

\* updateState: a updater that throws skips ensureDataDir / writeFileSync
BodyWrites(threw) == ~threw

\* The body of withLock up to its next await.
\*   saveState:   ensureDataDir(); writeFileSync(state)
\*   updateState: state = loadState(); await updater(state)
StoreBodyStart(c) ==
    /\ call[c].pc = "granted"
    /\ lastEntered' = ticket[c]
    /\ ticket' = [ticket EXCEPT ![c] = 0]
    /\ fileAtEnter' = [fileAtEnter EXCEPT ![c] = file]
    /\ IF call[c].op = "save"
         THEN \/ /\ file' = writeFileSync(call[c].arg)
                 /\ writes' = [writes EXCEPT ![c] = @ + 1]
                 /\ call' = [call EXCEPT ![c].pc = "finally"]
              \/ /\ call' = [call EXCEPT ![c].pc = "finally", ![c].err = "write"]
                 /\ UNCHANGED <<file, writes>>
         ELSE IF loadResult(file).threw
           THEN /\ call' = [call EXCEPT ![c].err = "load", ![c].pc = "finally"]
                /\ UNCHANGED <<file, writes>>
           ELSE LET threw == UpdaterThrows(call[c].updater)
                    st == ApplyUpdater(call[c].updater, loadResult(file).state, now)
                IN  /\ call' = [call EXCEPT
                           ![c].st = st,
                           ![c].err = IF threw THEN "updater" ELSE "none",
                           ![c].pc = IF BodyWrites(threw) THEN "loaded"
                                     ELSE "finally"]
                    /\ UNCHANGED <<file, writes>>
    /\ UNCHANGED <<locked, queue, nextTicket>>

\* updateState after the await: ensureDataDir(); writeFileSync(state)
StoreBodyWrite(c) ==
    /\ call[c].pc = "loaded"
    /\ \/ /\ file' = writeFileSync(call[c].st)
          /\ writes' = [writes EXCEPT ![c] = @ + 1]
          /\ call' = [call EXCEPT ![c].pc = "finally"]
       \/ /\ call' = [call EXCEPT ![c].pc = "finally",
                        ![c].err = IF @ = "none" THEN "write" ELSE @]
          /\ UNCHANGED <<file, writes>>
    /\ UNCHANGED <<locked, queue, nextTicket, ticket, lastEntered, fileAtEnter>>

\* the frame of a call that has settled keeps its operation and its error
Returned(f) ==
    [f EXCEPT !.pc = "returned", !.arg = EmptyState, !.st = EmptyState,
              !.waited = FALSE]

ReleasesOnSuccessOnly(err) == err = "none"

\* try { return await fn() } finally { this.release() }: released whether
\* or not the body threw
FinallyReleases(err) == TRUE

\* withLock's finally: release()
StoreFinally(c) ==
    /\ call[c].pc = "finally"
    /\ IF ~FinallyReleases(call[c].err)
         THEN /\ call' = [call EXCEPT ![c] = Returned(call[c])]
              /\ UNCHANGED <<locked, queue>>
         ELSE IF queue # <<>>
           THEN LET k == ReleaseNext(queue)
                IN  /\ call' = [call EXCEPT ![c] = Returned(call[c]),
                                            ![queue[k]].pc = "granted"]
                    /\ locked' = ReleaseLocked(queue)
                    /\ queue' = RemoveAt(queue, k)
           ELSE /\ call' = [call EXCEPT ![c] = Returned(call[c])]
                /\ locked' = FALSE
                /\ queue' = queue
    /\ fileAtEnter' = [fileAtEnter EXCEPT ![c] = NoFile]
    /\ UNCHANGED <<file, nextTicket, ticket, lastEntered, writes>>

StoreStep(c) == StoreBodyStart(c) \/ StoreBodyWrite(c) \/ StoreFinally(c)

----------------------------------------------------------------------------
(* WalletLockManager *)

LockGetAny(l, w) == \E v \in DOMAIN l : l[v]

\* locks.get(walletIndex), undefined being falsy
LockGet(l, w) == IF w \in DOMAIN l THEN l[w] ELSE FALSE

tryAcquireNoCheck(l, w) == [ok |-> TRUE, locks |-> SetField(l, w, TRUE)]

tryAcquire(l, w) ==
    IF LockGet(l, w) THEN [ok |-> FALSE, locks |-> l]
    ELSE [ok |-> TRUE, locks |-> SetField(l, w, TRUE)]

releaseEvery(l, w) == [v \in DOMAIN l |-> FALSE]

releaseToggles(l, w) == SetField(l, w, ~LockGet(l, w))

release(l, w) == SetField(l, w, FALSE)

isLocked(l, w) == LockGet(l, w)

releaseOnSuccessOnly(l, w, threw) == IF threw THEN l ELSE release(l, w)

\* executeTask's finally block: the lock is released whether or not
\* executeTokenCreation threw
releaseInFinally(l, w, threw) == release(l, w)

(* WalletLockManager called on its own.  lk records the last call: its     *)
(* method, its walletIndex, the table before it, what it returned, the     *)
(* call before it, the indexes released since their last tryAcquire, and   *)
(* whether the call's own index was one of them.                           *)

LockIndexes == 0 .. MaxTasks

NoLockCall == [op |-> "none", w |-> 0, before |-> [w \in {} |-> FALSE],
               result |-> FALSE, prevOp |-> "none", prevW |-> 0, freed |-> {},
               wasFreed |-> FALSE]

LockCall(op, w, result, freed) ==
    [op |-> op, w |-> w, before |-> locks, result |-> result,
     prevOp |-> lk.op, prevW |-> lk.w, freed |-> freed,
     wasFreed |-> w \in lk.freed]

\* everything of the scheduler but the lock table
schedVars == <<runPc, mem, tasks, sortedTasks, seqPos, tpc, attempt, creates,
               pollHist, summary>>

LockTryAcquire(w) ==
    /\ locks' = tryAcquire(locks, w).locks
    /\ lk' = LockCall("tryAcquire", w, tryAcquire(locks, w).ok, lk.freed \ {w})
    /\ UNCHANGED <<cfg, resumed, prior, rt, gen, now, file0, storeVars, schedVars>>

LockRelease(w) ==
    /\ locks' = release(locks, w)
    /\ lk' = LockCall("release", w, FALSE, lk.freed \cup {w})
    /\ UNCHANGED <<cfg, resumed, prior, rt, gen, now, file0, storeVars, schedVars>>

LockIsLocked(w) ==
    /\ locks' = locks
    /\ lk' = LockCall("isLocked", w, isLocked(locks, w), lk.freed)
    /\ UNCHANGED <<cfg, resumed, prior, rt, gen, now, file0, storeVars, schedVars>>

----------------------------------------------------------------------------
(* generateTasks.  Offsets and scheduled times are JavaScript numbers that *)
(* need not be whole: they are kept as quotients of integers.              *)

RECURSIVE GCD(_, _)
GCD(a, b) == IF b = 0 THEN a ELSE GCD(b, a % b)

\* the number n / d (n >= 0, d > 0), in lowest terms
Ratio(n, d) == [num |-> n \div GCD(n, d), den |-> d \div GCD(n, d)]

Whole(n) == Ratio(n, 1)

Plus(a, b) == Ratio(a.num * b.den + b.num * a.den, a.den * b.den)

Less(a, b) == a.num * b.den < b.num * a.den


getRandomDelayCeil(num, den, pct) ==
    LET lo == (num * (100 - pct)) \div (den * 100)
    IN  {d + 1 : d \in lo .. ((num * (100 + pct)) \div (den * 100))}

\* getRandomDelay(averageMs, randomness): the values
\* Math.floor(Math.random() * (max - min) + min) can take
getRandomDelay(num, den, pct) ==
    LET lo == (num * (100 - pct)) \div (den * 100)
    IN  {lo} \cup {d \in lo .. ((num * (100 + pct)) \div (den * 100)) :
                      d * den * 100 < num * (100 + pct)}

RandomTimesClosed(durationMs) == {Whole(d) : d \in 0 .. durationMs}

\* Math.random() * durationMs, a number in [0, durationMs): its whole values
RandomTimes(durationMs) == {Whole(d) : d \in 0 .. (durationMs - 1)}

BaseDelayTruncated(i, durationMs, totalTokens) ==
    Whole((i * durationMs) \div totalTokens)

\* baseDelay = i * averageDelay, with averageDelay = durationMs / totalTokens
BaseDelay(i, durationMs, totalTokens) == Ratio(i * durationMs, totalTokens)

\* the offsets (delayMs) generateTasks can give task i of totalTokens
DelayChoices(mode, pct, i, totalTokens, durationMs) ==
    IF mode = "parallel" THEN RandomTimes(durationMs)
    ELSE IF pct > 0
      THEN {Whole(d) : d \in getRandomDelay(i * durationMs, totalTokens, pct)}
    ELSE {BaseDelay(i, durationMs, totalTokens)}

IsSorted(d) == \A j \in 1 .. (Len(d) - 1) : ~Less(d[j + 1], d[j])

\* the delayMs lists generateTasks can produce
DelayLists(mode, pct, totalTokens, durationMs) ==
    IF totalTokens <= 0 THEN {<<>>}
    ELSE {d \in [1 .. totalTokens ->
                   UNION {DelayChoices(mode, pct, k - 1, totalTokens, durationMs) :
                             k \in 1 .. totalTokens}] :
            /\ \A k \in 1 .. totalTokens :
                  d[k] \in DelayChoices(mode, pct, k - 1, totalTokens, durationMs)
            /\ mode = "parallel" => IsSorted(d)}

RoundRobinFromOne(i, numWallets) ==
    IF numWallets = 0 THEN "NaN" ELSE (i % numWallets) + 1

\* walletIndex: i % numWallets, which is NaN when numWallets is 0
RoundRobin(i, numWallets) == IF numWallets = 0 THEN "NaN" ELSE i % numWallets

generateTasksReversed(delays, numWallets, metadata, startTime) ==
    [k \in 1 .. Len(delays) |->
        LET j == Len(delays) + 1 - k
        IN  [tokenIndex |-> j - 1,
             walletIndex |-> RoundRobin(j - 1, numWallets),
             metadata |-> metadata[j],
             delayMs |-> delays[j],
             scheduledTime |-> Plus(Whole(startTime), delays[j])]]

\* tasks.push({tokenIndex: i, ...}) for i = 0 .. totalTokens - 1; return tasks
generateTasks(delays, numWallets, metadata, startTime) ==
    [k \in 1 .. Len(delays) |->
        [tokenIndex |-> k - 1,
         walletIndex |-> RoundRobin(k - 1, numWallets),
         metadata |-> metadata[k],
         delayMs |-> delays[k],
         scheduledTime |-> Plus(Whole(startTime), delays[k])]]

(* generateTasks called on its own; config.executionMode and               *)
(* config.delayRandomness are read from cfg.                               *)

GenMetadata == {"M1", "M2"}
GenRandomnessPercents == {0, 50, 100}
GenStartTimes == {1, 7}

IdleGenerate(totalTokens, durationMs, numWallets, metadata) ==
    [pc |-> "idle", totalTokens |-> totalTokens, durationMs |-> durationMs,
     numWallets |-> numWallets, metadata |-> metadata, startTime |-> 1,
     out |-> <<>>]

\* metadata[Math.floor(Math.random() * metadata.length)]: any entry of the
\* pool, and undefined when the pool is empty
MetadataPicks(metadata) == IF metadata = {} THEN {"undefined"} ELSE metadata

\* one call; the random offsets and the random metadata picks are chosen here
GenerateCall ==
    /\ gen.pc = "idle"
    /\ \E delays \in DelayLists(cfg.executionMode, cfg.delayRandomness,
                                 gen.totalTokens, gen.durationMs),
          picks \in [1 .. gen.totalTokens -> MetadataPicks(gen.metadata)] :
          gen' = [gen EXCEPT !.pc = "done",
                    !.out = generateTasks(delays, gen.numWallets, picks,
                                          gen.startTime)]
    /\ UNCHANGED <<cfg, resumed, prior, rt, lk, now, file0, storeVars, runVars>>

\* [...tasks].sort((a, b) => a.scheduledTime - b.scheduledTime), a stable sort
SortRank(ts, k) ==
    1 + Cardinality({j \in 1 .. Len(ts) :
            \/ Less(ts[j].scheduledTime, ts[k].scheduledTime)
            \/ ts[j].scheduledTime = ts[k].scheduledTime /\ j < k})

SortByScheduledTime(ts) ==
    [r \in 1 .. Len(ts) |-> (CHOOSE k \in 1 .. Len(ts) : SortRank(ts, k) = r) - 1]

----------------------------------------------------------------------------
(* executeTask *)

Task(i) == tasks[i + 1]
Generated == {k - 1 : k \in 1 .. Len(tasks)}

\* wallets = deriveWallets(mnemonic, numWallets + 1).slice(1)
WalletInstanceIndex(walletIndex) == walletIndex + 1

Running(i) == tpc[i] \in {"creating", "updating", "selling", "backoff"}
Completed(i) == tpc[i] = "completed"
Failed(i) == tpc[i] \in {"failedCreate", "failedUpdate", "failedSell"}
Terminal(i) == Completed(i) \/ Failed(i)

\* history: createToken is invoked when executeTokenCreation starts
Invoked(made, pcs, pcsAfter) ==
    [i \in TaskIds |->
        made[i] + IF pcs[i] # "creating" /\ pcsAfter[i] = "creating" THEN 1 ELSE 0]

NoPolls == [queue |-> <<>>, overtaken |-> {}]

RECURSIVE Ascending(_)
\* the members of a set of task ids, in list order
Ascending(S) ==
    IF S = {} THEN <<>>
    ELSE LET m == CHOOSE x \in S : \A y \in S : x <= y
         IN  <<m>> \o Ascending(S \ {m})

\* history: a task arrives when its first tryAcquire returns false and leaves
\* when a tryAcquire returns true; a task still polling is overtaken when a
\* task that arrived after it, or had not polled at all, acquires its wallet
PollHistory(h, pcs, pcsAfter, ts) ==
    LET pos(i) == CHOOSE k \in 1 .. Len(h.queue) : h.queue[k] = i
        queued == {h.queue[k] : k \in 1 .. Len(h.queue)}
        granted == {j \in TaskIds : pcs[j] # "creating" /\ pcsAfter[j] = "creating"}
        arrived == {j \in TaskIds : pcs[j] # "polling" /\ pcsAfter[j] = "polling"}
        passed == {i \in queued :
                     /\ pcsAfter[i] = "polling"
                     /\ \E j \in granted :
                           /\ ts[j + 1].walletIndex = ts[i + 1].walletIndex
                           /\ j \in queued => pos(i) < pos(j)}
    IN  [queue |-> SelectSeq(h.queue, LAMBDA i : pcsAfter[i] = "polling")
                      \o Ascending(arrived),
         overtaken |-> h.overtaken \cup passed]

AcquireOrPollInArrivalOrder(t, l) ==
    LET r == tryAcquire(l, t.walletIndex)
        ahead == {k \in 1 .. Len(pollHist.queue) :
                     /\ tasks[pollHist.queue[k] + 1].walletIndex = t.walletIndex
                     /\ \A m \in 1 .. k : pollHist.queue[m] # t.tokenIndex}
    IN  IF ahead # {} THEN [pc |-> "polling", locks |-> l]
        ELSE [pc |-> IF r.ok THEN "creating" ELSE "polling", locks |-> r.locks]

\* the wait for the wallet: one evaluation of the while condition
AcquireOrPoll(t, l) ==
    LET r == tryAcquire(l, t.walletIndex)
    IN  [pc |-> IF r.ok THEN "creating" ELSE "polling", locks |-> r.locks]

ExecuteTaskStartNoWait(t, l, clock) == AcquireOrPoll(t, l)

\* executeTask from its call to its first await
ExecuteTaskStart(t, l, clock) ==
    IF Less(Whole(clock), t.scheduledTime)
      THEN [pc |-> "waiting", locks |-> l]
      ELSE AcquireOrPoll(t, l)

\* setTimeout(resolve, waitTime) has fired
TaskWake(i) ==
    /\ i \in Generated
    /\ tpc[i] = "waiting"
    /\ ~Less(Whole(now), Task(i).scheduledTime)
    /\ LET r == AcquireOrPoll(Task(i), locks)
       IN  /\ tpc' = [tpc EXCEPT ![i] = r.pc]
           /\ locks' = r.locks
    /\ creates' = Invoked(creates, tpc, tpc')
    /\ pollHist' = PollHistory(pollHist, tpc, tpc', tasks)
    /\ UNCHANGED <<envVars, now, file0, storeVars, runPc, mem, tasks, sortedTasks,
                   seqPos, attempt, summary>>

\* setTimeout(resolve, WALLET_LOCK_POLL_INTERVAL) has fired
TaskPoll(i) ==
    /\ i \in Generated
    /\ tpc[i] = "polling"
    /\ LET r == AcquireOrPoll(Task(i), locks)
       IN  /\ tpc' = [tpc EXCEPT ![i] = r.pc]
           /\ locks' = r.locks
    /\ creates' = Invoked(creates, tpc, tpc')
    /\ pollHist' = PollHistory(pollHist, tpc, tpc', tasks)
    /\ UNCHANGED <<envVars, now, file0, storeVars, runPc, mem, tasks, sortedTasks,
                   seqPos, attempt, summary>>

\* executeTokenCreation has settled: the finally block, then executeTask settles
EndTask(i, pc) ==
    /\ locks' = releaseInFinally(locks, Task(i).walletIndex, pc # "completed")
    /\ tpc' = [tpc EXCEPT ![i] = pc]

CreateIsRetriedLikeSell(made, maxRetries) == made < maxRetries

\* createToken is awaited directly, not through withRetry
CreateIsRetried(made, maxRetries) == FALSE

LocksReleasedAfterCreate(l, w) == release(l, w)

\* executeTokenCreation runs inside executeTask's try block: the wallet stays
\* locked from createToken's return through updateState and the sell step
LocksDuringWorkflow(l, w) == l

\* createToken has settled
TaskCreateReturns(i) ==
    /\ i \in Generated
    /\ tpc[i] = "creating"
    /\ \/ /\ StoreCall(TaskCaller(i), "update",
                       IncUpdater(<<"new", i>>, Task(i).metadata,
                                  WalletInstanceIndex(Task(i).walletIndex)),
                       EmptyState)
          /\ tpc' = [tpc EXCEPT ![i] = "updating"]
          /\ locks' = LocksDuringWorkflow(locks, Task(i).walletIndex)
          /\ creates' = creates
       \/ /\ IF CreateIsRetried(creates[i], cfg.maxRetries)
               THEN /\ creates' = [creates EXCEPT ![i] = @ + 1]
                    /\ UNCHANGED <<tpc, locks>>
               ELSE /\ EndTask(i, "failedCreate")
                    /\ creates' = creates
          /\ UNCHANGED storeVars
    /\ UNCHANGED <<envVars, now, file0, runPc, mem, tasks, sortedTasks, seqPos,
                   attempt, pollHist, summary>>

\* the task's updateState call proceeds
TaskStoreStep(i) ==
    /\ i \in Generated
    /\ tpc[i] = "updating"
    /\ StoreStep(TaskCaller(i))
    /\ UNCHANGED <<envVars, now, file0, runVars>>

SellConfiguredAlways(sellPercentage) == TRUE

\* if (config.sellPercentage > 0)
SellConfigured(sellPercentage) == sellPercentage > 0

RetryLoopEnteredOnce(maxRetries) == TRUE

\* withRetry: the for loop is entered iff 1 <= maxRetries
RetryLoopEntered(maxRetries) == 1 <= maxRetries

SchedulerCopyCounts(m, err) ==
    IF err = "none" THEN [m EXCEPT !.tokensCreated = @ + 1] ELSE m

\* executeTokenCreation(wallet, metadata, config) is not handed the record
\* runScheduler loaded: the updater mutates the record updateState loads
SchedulerCopy(m, err) == m

\* updateState has settled; then the sell step, if configured
TaskAfterUpdate(i) ==
    /\ i \in Generated
    /\ tpc[i] = "updating"
    /\ call[TaskCaller(i)].pc = "returned"
    /\ mem' = SchedulerCopy(mem, call[TaskCaller(i)].err)
    /\ IF call[TaskCaller(i)].err # "none"
         THEN EndTask(i, "failedUpdate") /\ attempt' = attempt
         ELSE IF SellConfigured(cfg.sellPercentage)
           THEN IF RetryLoopEntered(cfg.maxRetries)
                  THEN /\ tpc' = [tpc EXCEPT ![i] = "selling"]
                       /\ attempt' = [attempt EXCEPT ![i] = 1]
                       /\ locks' = locks
                  ELSE EndTask(i, "failedSell") /\ attempt' = attempt
           ELSE EndTask(i, "completed") /\ attempt' = attempt
    /\ UNCHANGED <<envVars, now, file0, storeVars, runPc, tasks, sortedTasks,
                   seqPos, creates, pollHist, summary>>

MoreAttemptsInclusive(attemptNo, maxRetries) == attemptNo <= maxRetries

\* withRetry's catch: if (attempt < maxRetries) sleep and go on, else throw
MoreAttempts(attemptNo, maxRetries) == attemptNo < maxRetries

BackoffDelayConstant(retryDelay, attemptNo) == retryDelay

\* const delay = retryDelay * attempt
BackoffDelay(retryDelay, attemptNo) == retryDelay * attemptNo

\* sellTokens has settled inside withRetry
TaskSellReturns(i) ==
    /\ i \in Generated
    /\ tpc[i] = "selling"
    /\ \/ EndTask(i, "completed")
       \/ IF MoreAttempts(attempt[i], cfg.maxRetries)
            THEN tpc' = [tpc EXCEPT ![i] = "backoff"] /\ locks' = locks
            ELSE EndTask(i, "failedSell")
    /\ UNCHANGED <<envVars, now, file0, storeVars, runPc, mem, tasks, sortedTasks,
                   seqPos, attempt, creates, pollHist, summary>>

\* withRetry's setTimeout(resolve, delay) has fired: the next attempt
TaskRetry(i) ==
    /\ i \in Generated
    /\ tpc[i] = "backoff"
    /\ attempt' = [attempt EXCEPT ![i] = @ + 1]
    /\ tpc' = [tpc EXCEPT ![i] = "selling"]
    /\ UNCHANGED <<envVars, now, file0, storeVars, locks, runPc, mem, tasks,
                   sortedTasks, seqPos, creates, pollHist, summary>>

----------------------------------------------------------------------------
(* withRetry(fn, taskName, maxRetries, retryDelay), called on its own.     *)
(* rt.sleeps lists the setTimeout delays in order, rt.errors the messages  *)
(* of fn's rejections in order, rt.calls counts the invocations of fn.     *)

IdleRetry(maxRetries, retryDelay) ==
    [pc |-> "idle", maxRetries |-> maxRetries, retryDelay |-> retryDelay,
     attempt |-> 0, calls |-> 0, sleeps |-> <<>>, errors |-> <<>>,
     result |-> [kind |-> "none"]]

\* new Error(`${taskName} failed after ${maxRetries} attempts: ${message}`)
ExhaustedError(taskName, maxRetries, message) ==
    [kind |-> "error", taskName |-> taskName, attempts |-> maxRetries,
     message |-> message]

\* new Error(`${taskName} failed after ${maxRetries} attempts`)
NeverTriedError(taskName, maxRetries) ==
    [kind |-> "error", taskName |-> taskName, attempts |-> maxRetries,
     message |-> "none"]

\* withRetry up to its first await: the first fn() call, or the throw
\* after a loop that is never entered
RetryCall ==
    /\ rt.pc = "idle"
    /\ rt' = IF RetryLoopEntered(rt.maxRetries)
               THEN [rt EXCEPT !.pc = "calling", !.attempt = 1, !.calls = 1]
               ELSE [rt EXCEPT !.pc = "threw",
                       !.result = NeverTriedError("T", rt.maxRetries)]
    /\ UNCHANGED <<cfg, resumed, prior, gen, lk, now, file0, storeVars, runVars>>

\* fn() has settled: return its value, or catch its error
RetryFnSettles ==
    /\ rt.pc = "calling"
    /\ \/ rt' = [rt EXCEPT !.pc = "returned",
                     !.result = [kind |-> "value", value |-> <<"v", rt.calls>>]]
       \/ \E e \in ErrorMessages :
             rt' = IF MoreAttempts(rt.attempt, rt.maxRetries)
                     THEN [rt EXCEPT !.pc = "sleeping",
                             !.errors = Append(@, e),
                             !.sleeps = Append(@, BackoffDelay(rt.retryDelay,
                                                               rt.attempt))]
                     ELSE [rt EXCEPT !.pc = "threw",
                             !.errors = Append(@, e),
                             !.result = ExhaustedError("T", rt.maxRetries, e)]
    /\ UNCHANGED <<cfg, resumed, prior, gen, lk, now, file0, storeVars, runVars>>

\* setTimeout(resolve, delay) has fired: attempt++, then the loop test and
\* the next fn() call
RetryTimerFires ==
    /\ rt.pc = "sleeping"
    /\ rt' = IF rt.attempt + 1 <= rt.maxRetries
               THEN [rt EXCEPT !.pc = "calling", !.attempt = @ + 1,
                       !.calls = @ + 1]
               ELSE [rt EXCEPT !.pc = "threw", !.attempt = @ + 1,
                       !.result = NeverTriedError("T", rt.maxRetries)]
    /\ UNCHANGED <<cfg, resumed, prior, gen, lk, now, file0, storeVars, runVars>>

----------------------------------------------------------------------------
(* runScheduler *)

RECURSIVE DispatchAll(_, _, _, _, _)
\* tasks.map((task) => executeTask(...)): every executeTask runs to its
\* first await, in list order
DispatchAll(ts, k, l, pcs, clock) ==
    IF k > Len(ts) THEN [locks |-> l, tpc |-> pcs]
    ELSE LET r == ExecuteTaskStart(ts[k], l, clock)
         IN  DispatchAll(ts, k + 1, r.locks, [pcs EXCEPT ![k - 1] = r.pc], clock)

\* what .catch(...) makes of executeTask's promise: the handler returns
\* normally, whatever the task's outcome
SettledStatus(pc) == "fulfilled"

sequentialLoopRethrows(pc) == pc # "completed"

\* the sequential loop's try / catch: an error of executeTask is logged
\* and the loop continues
SequentialLoopThrows(pc) == FALSE

RemainingTokensIgnoresState(totalTokensToCreate, tokensCreated) ==
    totalTokensToCreate

\* const remainingTokens = config.totalTokensToCreate - state.tokensCreated
RemainingTokens(totalTokensToCreate, tokensCreated) ==
    totalTokensToCreate - tokensCreated

\* from `const remainingTokens = ...` to the first await of the dispatch
GenerateAndDispatch(st) ==
    LET remainingTokens == RemainingTokens(cfg.totalTokensToCreate, st.tokensCreated)
    IN  IF remainingTokens = 0
          THEN /\ runPc' = "done"
               /\ UNCHANGED <<tasks, sortedTasks, seqPos, tpc, locks>>
          ELSE \E delays \in DelayLists(cfg.executionMode, cfg.delayRandomness,
                                         remainingTokens, DurationMs) :
               LET ts == generateTasks(delays, cfg.numWallets,
                             [k \in 1 .. Len(delays) |-> MetadataPool[1]],
                             st.startTime)
                   sorted == SortByScheduledTime(ts)
                   pcs == [i \in TaskIds |->
                              IF i < Len(ts) THEN "pending" ELSE "none"]
                   noLocks == [w \in {} |-> FALSE]
               IN  /\ tasks' = ts
                   /\ sortedTasks' = sorted
                   /\ runPc' = "running"
                   /\ IF cfg.executionMode = "parallel"
                        THEN LET r == DispatchAll(ts, 1, noLocks, pcs, now)
                             IN  /\ tpc' = r.tpc
                                 /\ locks' = r.locks
                                 /\ seqPos' = 0
                        ELSE IF Len(ts) = 0
                          THEN /\ tpc' = pcs
                               /\ locks' = noLocks
                               /\ seqPos' = 0
                          ELSE LET r == ExecuteTaskStart(ts[sorted[1] + 1], noLocks, now)
                               IN  /\ tpc' = [pcs EXCEPT ![sorted[1]] = r.pc]
                                   /\ locks' = r.locks
                                   /\ seqPos' = 1

StartTimeUnsetAlways(st) == TRUE

\* !state.startTime: the field is missing, or 0
StartTimeUnset(st) == ~HasField(st, "startTime") \/ st.startTime = 0

\* runScheduler up to its first await
RunStart ==
    /\ runPc = "init"
    /\ LET st == loadResult(file).state
       IN  IF loadResult(file).threw
             THEN /\ runPc' = "threwLoad"
                  /\ UNCHANGED <<mem, tasks, sortedTasks, seqPos, tpc, locks>>
                  /\ UNCHANGED storeVars
           ELSE IF StartTimeUnset(st)
             THEN /\ mem' = SetField(st, "startTime", now)
                  /\ StoreCall(RunnerId, "save", NoUpdater, mem')
                  /\ runPc' = "saving"
                  /\ UNCHANGED <<tasks, sortedTasks, seqPos, tpc, locks>>
             ELSE /\ mem' = st
                  /\ GenerateAndDispatch(st)
                  /\ UNCHANGED storeVars
    /\ creates' = Invoked(creates, tpc, tpc')
    /\ pollHist' = PollHistory(pollHist, tpc, tpc', tasks')
    /\ UNCHANGED <<envVars, now, file0, attempt, summary>>

\* the start-time saveState call proceeds
RunStoreStep ==
    /\ runPc = "saving"
    /\ StoreStep(RunnerId)
    /\ UNCHANGED <<envVars, now, file0, runVars>>

\* await saveState(state) has settled
RunAfterSave ==
    /\ runPc = "saving"
    /\ call[RunnerId].pc = "returned"
    /\ IF call[RunnerId].err # "none"
         THEN /\ runPc' = "threwSave"
              /\ UNCHANGED <<tasks, sortedTasks, seqPos, tpc, locks>>
         ELSE GenerateAndDispatch(mem)
    /\ creates' = Invoked(creates, tpc, tpc')
    /\ pollHist' = PollHistory(pollHist, tpc, tpc', tasks')
    /\ UNCHANGED <<envVars, now, file0, storeVars, mem, attempt, summary>>

\* parallel mode: Promise.allSettled has settled; the execution summary
RunSummary ==
    /\ runPc = "running"
    /\ cfg.executionMode = "parallel"
    /\ \A i \in Generated : Terminal(i)
    /\ summary' = [total |-> Len(tasks),
                   successes |-> Cardinality({i \in Generated :
                                     SettledStatus(tpc[i]) = "fulfilled"}),
                   failures |-> Cardinality({i \in Generated :
                                     SettledStatus(tpc[i]) = "rejected"})]
    /\ runPc' = "done"
    /\ UNCHANGED <<envVars, now, file0, storeVars, locks, mem, tasks, sortedTasks,
                   seqPos, tpc, attempt, creates, pollHist>>

executeTaskNotAwaited(pc) == TRUE

\* await executeTask(...) in the sequential loop: the loop goes on when
\* executeTask has settled
executeTaskSettled(pc) ==
    pc \in {"completed", "failedCreate", "failedUpdate", "failedSell"}

\* sequential mode: await executeTask(...) has settled; the next iteration
RunSequentialNext ==
    /\ runPc = "running"
    /\ cfg.executionMode = "sequential"
    /\ seqPos = 0 \/ executeTaskSettled(tpc[sortedTasks[seqPos]])
    /\ IF seqPos > 0 /\ SequentialLoopThrows(tpc[sortedTasks[seqPos]])
         THEN /\ runPc' = "threwTask"
              /\ UNCHANGED <<seqPos, tpc, locks>>
         ELSE IF seqPos >= Len(sortedTasks)
           THEN /\ runPc' = "done"
                /\ UNCHANGED <<seqPos, tpc, locks>>
           ELSE LET i == sortedTasks[seqPos + 1]
                    r == ExecuteTaskStart(Task(i), locks, now)
                IN  /\ tpc' = [tpc EXCEPT ![i] = r.pc]
                    /\ locks' = r.locks
                    /\ seqPos' = seqPos + 1
                    /\ runPc' = runPc
    /\ creates' = Invoked(creates, tpc, tpc')
    /\ pollHist' = PollHistory(pollHist, tpc, tpc', tasks)
    /\ UNCHANGED <<envVars, now, file0, storeVars, mem, tasks, sortedTasks,
                   attempt, summary>>

----------------------------------------------------------------------------
(* Calls of the store's exported functions from outside the scheduler *)

\* updateState(updater)
ExtUpdate(c) ==
    /\ c \in ExtCallers
    /\ \E m \in {IncUpdater(c, MetadataPool[1], 0), ThrowingUpdater} :
          StoreCall(c, "update", m, EmptyState)
    /\ UNCHANGED <<envVars, now, file0, runVars>>

\* resetState(): saveState(emptyState), not awaited
ExtReset(c) ==
    /\ c \in ExtCallers
    /\ StoreCall(c, "save", NoUpdater, EmptyState)
    /\ UNCHANGED <<envVars, now, file0, runVars>>

ExtStoreStep(c) ==
    /\ c \in ExtCallers
    /\ StoreStep(c)
    /\ UNCHANGED <<envVars, now, file0, runVars>>

\* the clock advances while a task's setTimeout(resolve, waitTime) is still
\* pending; once every scheduled time has passed, no step reads the clock
\* except to stamp a record
Tick ==
    /\ runPc # "init"
    /\ \E i \in Generated : tpc[i] = "waiting"
                             /\ Less(Whole(now), Task(i).scheduledTime)
    /\ now' = now + 1
    /\ UNCHANGED <<envVars, file0, storeVars, runVars>>

----------------------------------------------------------------------------
(* Well-formed state files the program can start from *)

OldRecord(k) == TokenRecord(<<"old", k>>, MetadataPool[1], 1, 1)

OldState(n) ==
    [tokensCreated |-> n, createdTokens |-> [k \in 1 .. n |-> OldRecord(k)],
     startTime |-> 1]

InitialFiles == {NoFile} \cup {JSONStringify(OldState(n)) : n \in 1 .. MaxTasks}

NoPrior == [loaded |-> 0, commits |-> 0, startTime |-> 0, reset |-> FALSE]

InitWith(files) ==
    /\ now = 1
    /\ file \in files
    /\ file0 = file
    /\ locked = FALSE
    /\ queue = <<>>
    /\ call = [c \in Callers |-> IdleFrame]
    /\ nextTicket = 1
    /\ ticket = [c \in Callers |-> 0]
    /\ lastEntered = 0
    /\ writes = [c \in Callers |-> 0]
    /\ fileAtEnter = [c \in Callers |-> NoFile]
    /\ locks = [w \in {} |-> FALSE]
    /\ mem = EmptyState
    /\ tasks = <<>>
    /\ sortedTasks = <<>>
    /\ seqPos = 0
    /\ tpc = [i \in TaskIds |-> "none"]
    /\ attempt = [i \in TaskIds |-> 0]
    /\ creates = [i \in TaskIds |-> 0]
    /\ pollHist = NoPolls
    /\ resumed = FALSE
    /\ prior = NoPrior
    /\ summary = [total |-> 0, successes |-> 0, failures |-> 0]

InitCommon == InitWith(InitialFiles)

(* The store used on its own: concurrent updateState / resetState calls *)
InitStore ==
    /\ InitCommon
    /\ rt = IdleRetry(0, 1)
    /\ gen = IdleGenerate(1, 1, 1, GenMetadata)
    /\ lk = NoLockCall
    /\ cfg = [executionMode |-> "parallel", sellPercentage |-> 0,
              maxRetries |-> 2, delayRandomness |-> 0, numWallets |-> 1,
              totalTokensToCreate |-> MaxTasks]
    /\ runPc = "off"

(* The store used on its own, also on a state file that is not well-formed *)
InitStoreAnyFile ==
    /\ InitWith(InitialFiles \cup {CorruptFile})
    /\ rt = IdleRetry(0, 1)
    /\ gen = IdleGenerate(1, 1, 1, GenMetadata)
    /\ lk = NoLockCall
    /\ cfg = [executionMode |-> "parallel", sellPercentage |-> 0,
              maxRetries |-> 2, delayRandomness |-> 0, numWallets |-> 1,
              totalTokensToCreate |-> MaxTasks]
    /\ runPc = "off"

NextStore ==
    \/ \E c \in ExtCallers : ExtUpdate(c)
    \/ \E c \in ExtCallers : ExtReset(c)
    \/ \E c \in ExtCallers : ExtStoreStep(c)

SpecStore == InitStore /\ [][NextStore]_vars

SpecStoreAnyFile == InitStoreAnyFile /\ [][NextStore]_vars

(* One run of the scheduler, with resetState calls from outside *)
Init ==
    /\ InitCommon
    /\ rt = IdleRetry(0, 1)
    /\ gen = IdleGenerate(1, 1, 1, GenMetadata)
    /\ lk = NoLockCall
    /\ cfg \in Configs
    /\ runPc = "init"

\* resetState() called while the scheduler runs
RunReset ==
    /\ runPc \notin {"init", "off"}
    /\ ExtReset(ResetCaller)

RunResetStep ==
    /\ runPc \notin {"init", "off"}
    /\ ExtStoreStep(ResetCaller)

RECURSIVE Sum(_, _)
Sum(f, S) == IF S = {} THEN 0
             ELSE LET x == CHOOSE y \in S : TRUE IN f[x] + Sum(f, S \ {x})

\* the start timestamp in a state file, 0 when the file has none
StartStamp(f) ==
    IF HasField(loadState(f), "startTime") THEN loadState(f).startTime ELSE 0

\* The process stops (it is killed, or runScheduler has returned or thrown)
\* and is started again: everything but the state file is lost.
Crash ==
    /\ runPc \notin {"init", "off"}
    /\ ~resumed
    /\ resumed' = TRUE
    /\ prior' = [loaded |-> loadState(file0).tokensCreated,
                 commits |-> Sum([i \in TaskIds |-> writes[TaskCaller(i)]], TaskIds),
                 startTime |-> StartStamp(file),
                 reset |-> writes[ResetCaller] > 0]
    /\ file0' = file
    /\ locked' = FALSE
    /\ queue' = <<>>
    /\ call' = [c \in Callers |-> IdleFrame]
    /\ nextTicket' = 1
    /\ ticket' = [c \in Callers |-> 0]
    /\ lastEntered' = 0
    /\ writes' = [c \in Callers |-> 0]
    /\ fileAtEnter' = [c \in Callers |-> NoFile]
    /\ locks' = [w \in {} |-> FALSE]
    /\ runPc' = "init"
    /\ mem' = EmptyState
    /\ tasks' = <<>>
    /\ sortedTasks' = <<>>
    /\ seqPos' = 0
    /\ tpc' = [i \in TaskIds |-> "none"]
    /\ attempt' = [i \in TaskIds |-> 0]
    /\ creates' = [i \in TaskIds |-> 0]
    /\ pollHist' = NoPolls
    /\ summary' = [total |-> 0, successes |-> 0, failures |-> 0]
    /\ UNCHANGED <<cfg, now, file, rt, gen, lk>>

Next ==
    \/ Tick
    \/ RunStart
    \/ RunStoreStep
    \/ RunAfterSave
    \/ RunSummary
    \/ RunSequentialNext
    \/ \E i \in TaskIds : TaskWake(i)
    \/ \E i \in TaskIds : TaskPoll(i)
    \/ \E i \in TaskIds : TaskCreateReturns(i)
    \/ \E i \in TaskIds : TaskStoreStep(i)
    \/ \E i \in TaskIds : TaskAfterUpdate(i)
    \/ \E i \in TaskIds : TaskSellReturns(i)
    \/ \E i \in TaskIds : TaskRetry(i)
    \/ RunReset
    \/ RunResetStep

Spec == Init /\ [][Next]_vars

(* withRetry called on its own, with every maxRetries up to MaxAttempts *)
InitRetry ==
    /\ InitCommon
    /\ file = NoFile
    /\ \E n \in 0 .. MaxAttempts, d \in RetryDelays : rt = IdleRetry(n, d)
    /\ gen = IdleGenerate(1, 1, 1, GenMetadata)
    /\ lk = NoLockCall
    /\ cfg = [executionMode |-> "parallel", sellPercentage |-> 0,
              maxRetries |-> 2, delayRandomness |-> 0, numWallets |-> 1,
              totalTokensToCreate |-> MaxTasks]
    /\ runPc = "off"

NextRetry == RetryCall \/ RetryFnSettles \/ RetryTimerFires

SpecRetry == InitRetry /\ [][NextRetry]_vars

(* generateTasks called on its own, in both modes *)
InitGenerate ==
    /\ InitCommon
    /\ file = NoFile
    /\ rt = IdleRetry(0, 1)
    /\ lk = NoLockCall
    /\ \E n \in (0 - 1) .. (MaxTasks + 1), d \in 1 .. (DurationMs + 1),
          w \in 0 .. (MaxTasks + 1), m \in {{}, GenMetadata},
          t \in GenStartTimes :
          gen = [IdleGenerate(n, d, w, m) EXCEPT !.startTime = t]
    /\ cfg \in {[c EXCEPT !.delayRandomness = p] :
                  c \in {x \in Configs : x.sellPercentage = 0 /\ x.numWallets = 1},
                  p \in GenRandomnessPercents}
    /\ runPc = "off"

NextGenerate == GenerateCall

SpecGenerate == InitGenerate /\ [][NextGenerate]_vars

(* WalletLockManager called on its own, in any order *)
InitLocks ==
    /\ InitCommon
    /\ file = NoFile
    /\ rt = IdleRetry(0, 1)
    /\ gen = IdleGenerate(1, 1, 1, GenMetadata)
    /\ lk = NoLockCall
    /\ cfg = [executionMode |-> "parallel", sellPercentage |-> 0,
              maxRetries |-> 2, delayRandomness |-> 0, numWallets |-> 1,
              totalTokensToCreate |-> MaxTasks]
    /\ runPc = "off"

NextLocks ==
    \/ \E w \in LockIndexes : LockTryAcquire(w)
    \/ \E w \in LockIndexes : LockRelease(w)
    \/ \E w \in LockIndexes : LockIsLocked(w)

SpecLocks == InitLocks /\ [][NextLocks]_vars

(* One run of the scheduler started on any file, readable or not *)
InitStartup ==
    /\ InitWith(InitialFiles \cup {CorruptFile})
    /\ rt = IdleRetry(0, 1)
    /\ gen = IdleGenerate(1, 1, 1, GenMetadata)
    /\ lk = NoLockCall
    /\ cfg \in Configs
    /\ runPc = "init"

SpecStartup == InitStartup /\ [][Next]_vars

(* Runs of the scheduler in a process that can be stopped and started again *)
NextResume ==
    \/ Crash
    \/ Tick
    \/ RunStart
    \/ RunStoreStep
    \/ RunAfterSave
    \/ RunSummary
    \/ RunSequentialNext
    \/ \E i \in TaskIds : TaskWake(i)
    \/ \E i \in TaskIds : TaskPoll(i)
    \/ \E i \in TaskIds : TaskCreateReturns(i)
    \/ \E i \in TaskIds : TaskStoreStep(i)
    \/ \E i \in TaskIds : TaskAfterUpdate(i)
    \/ \E i \in TaskIds : TaskSellReturns(i)
    \/ \E i \in TaskIds : TaskRetry(i)

SpecResume == Init /\ [][NextResume]_vars

(* One run of the scheduler and nothing else.  The event loop runs every   *)
(* callback that is ready: a step that stays possible is eventually taken. *)
(* A poll that finds the wallet busy changes nothing and is no step.       *)
NextLive ==
    \/ Tick
    \/ RunStart
    \/ RunStoreStep
    \/ RunAfterSave
    \/ RunSummary
    \/ RunSequentialNext
    \/ \E i \in TaskIds : TaskWake(i)
    \/ \E i \in TaskIds : TaskPoll(i)
    \/ \E i \in TaskIds : TaskCreateReturns(i)
    \/ \E i \in TaskIds : TaskStoreStep(i)
    \/ \E i \in TaskIds : TaskAfterUpdate(i)
    \/ \E i \in TaskIds : TaskSellReturns(i)
    \/ \E i \in TaskIds : TaskRetry(i)

SpecLive == Init /\ [][NextLive]_vars /\ WF_vars(NextLive)

(* One run from no state file with the sell step configured, MAX_RETRIES   *)
(* being any integer parseInt can give (parseConfig does not check it),    *)
(* beside a withRetry call on its own with the same maxRetries.            *)
SellMaxRetries == {0 - 1, 0, 2}

InitSell ==
    /\ InitWith({NoFile})
    /\ gen = IdleGenerate(1, 1, 1, GenMetadata)
    /\ lk = NoLockCall
    /\ cfg \in {[c EXCEPT !.maxRetries = n] :
                  c \in {x \in Configs : x.sellPercentage > 0},
                  n \in SellMaxRetries}
    /\ rt = IdleRetry(cfg.maxRetries, 1)
    /\ runPc = "init"

NextSell == NextLive \/ NextRetry

SpecSell == InitSell /\ [][NextSell]_vars

(* A parallel run of two tasks more, without the sell step, from an empty   *)
(* state, in which no external call and no write fails: the smallest run   *)
(* in which a task can overtake one that was scheduled or arrived earlier. *)
InitOrder ==
    /\ InitWith({NoFile})
    /\ rt = IdleRetry(0, 1)
    /\ gen = IdleGenerate(1, 1, 1, GenMetadata)
    /\ lk = NoLockCall
    /\ cfg \in {[c EXCEPT !.totalTokensToCreate = MaxTasks + 2] :
                  c \in {x \in Configs : /\ x.executionMode = "parallel"
                                         /\ x.sellPercentage = 0}}
    /\ runPc = "init"

NextOrder ==
    \/ Tick
    \/ RunStart
    \/ RunStoreStep /\ call'[RunnerId].err = "none"
    \/ RunAfterSave
    \/ RunSummary
    \/ \E i \in TaskIds : TaskWake(i)
    \/ \E i \in TaskIds : TaskPoll(i)
    \/ \E i \in TaskIds : TaskCreateReturns(i) /\ tpc'[i] # "failedCreate"
    \/ \E i \in TaskIds : TaskStoreStep(i) /\ call'[TaskCaller(i)].err = "none"
    \/ \E i \in TaskIds : TaskAfterUpdate(i)

SpecOrder == InitOrder /\ [][NextOrder]_vars

(* The same run when an external call may never settle: timers, the state  *)
(* store and the scheduler's own steps are taken when ready, the return of *)
(* createToken or sellTokens is not promised.                              *)
NextButCalls ==
    \/ Tick
    \/ RunStart
    \/ RunStoreStep
    \/ RunAfterSave
    \/ RunSummary
    \/ RunSequentialNext
    \/ \E i \in TaskIds : TaskWake(i)
    \/ \E i \in TaskIds : TaskPoll(i)
    \/ \E i \in TaskIds : TaskStoreStep(i)
    \/ \E i \in TaskIds : TaskAfterUpdate(i)
    \/ \E i \in TaskIds : TaskRetry(i)

\* the external call of a task other than k settles
CallsReturnExcept(k) ==
    \E j \in TaskIds \ {k} : TaskCreateReturns(j) \/ TaskSellReturns(j)

SpecStuck == Init /\ [][NextLive]_vars /\ WF_vars(NextButCalls)

----------------------------------------------------------------------------
(* Properties *)

WalletOf(i) == Task(i).walletIndex
InSection(c) == call[c].pc \in {"granted", "loaded", "finally"}
InBody(c) == call[c].pc \in {"loaded", "finally"}
Waiting(c) == call[c].pc \in {"queued", "granted"}
OnDisk == loadState(file)
AtStart == loadState(file0)
Commits(i) == writes[TaskCaller(i)]

\* C1: for every wallet index, at most one task is between its successful
\* tryAcquire and the release in its finally block.
C1_WalletMutualExclusion ==
    \A w \in Wallets :
        Cardinality({i \in Generated : Running(i) /\ WalletOf(i) = w}) <= 1

\* a task runs on a wallet while another task of the same wallet polls for it
C1_Witness ==
    \E i \in Generated : \E j \in Generated :
        /\ i # j
        /\ WalletOf(i) = WalletOf(j)
        /\ Running(i)
        /\ tpc[j] = "polling"

\* C2: when every one of the concurrent store calls was an updateState and
\* all have finished, the state file holds the initial tokensCreated plus the
\* number of calls whose incrementing updater was applied and written, and
\* createdTokens is longer by the same number.
C2_NoLostUpdates ==
    (\A c \in ExtCallers : call[c].pc = "returned" /\ call[c].op = "update")
    => LET n == Cardinality({c \in ExtCallers :
                    call[c].updater.kind = "inc" /\ call[c].err = "none"})
       IN  /\ OnDisk.tokensCreated = AtStart.tokensCreated + n
           /\ Len(OnDisk.createdTokens) = Len(AtStart.createdTokens) + n

\* all MaxExt calls were incrementing updateState calls and all have finished
C2_Witness ==
    \A c \in ExtCallers :
        /\ call[c].pc = "returned"
        /\ call[c].updater.kind = "inc"
        /\ call[c].err = "none"

\* C3: at most one caller is inside the exclusive section (lock handed to
\* it, body running across its await, or body finished and lock not yet
\* released); so no body starts between another body's load and its write.
C3_OneBodyAtATime ==
    Cardinality({c \in Callers : InSection(c)}) <= 1

\* an updateState body is between its load and its write while another
\* caller is queued for the section
C3_Witness ==
    \E c \in Callers : \E d \in Callers :
        /\ call[c].op = "update"
        /\ call[c].pc = "loaded"
        /\ call[d].pc = "queued"

\* C4: bodies start in the order of the acquire() calls: a caller that has
\* not started its body yet called acquire() after the caller whose body
\* started last.
C4_FIFO ==
    \A c \in Callers : Waiting(c) => ticket[c] > lastEntered

\* a caller that had to queue is in its body while a later caller still queues
C4_Witness ==
    \E c \in Callers : \E d \in Callers :
        /\ call[c].waited
        /\ InBody(c)
        /\ call[d].pc = "queued"

\* C5: an updateState call whose updater throws writes nothing, leaves the
\* file as it was when its body started, and returns the updater's error.
C5_UpdaterErrorNoWrite ==
    \A c \in Callers :
        (/\ call[c].op = "update"
         /\ UpdaterThrows(call[c].updater)
         /\ call[c].pc \in {"loaded", "finally", "returned"})
        => /\ writes[c] = 0
           /\ call[c].err = "updater"
           /\ call[c].pc = "finally" => file = fileAtEnter[c]

\* an updateState call with a throwing updater has returned, after another
\* call has written the file
C5_Witness ==
    \E c \in ExtCallers : \E d \in ExtCallers :
        /\ call[c].op = "update"
        /\ UpdaterThrows(call[c].updater)
        /\ call[c].pc = "returned"
        /\ writes[d] = 1

\* C6: in the state file, as loadState returns it, tokensCreated equals the
\* length of createdTokens.
C6_CountMatchesList ==
    OnDisk.tokensCreated = Len(OnDisk.createdTokens)

\* the file holds a record committed by a task after the start-time save and
\* a reset have written it
C6_Witness ==
    /\ writes[RunnerId] = 1
    /\ writes[ResetCaller] = 1
    /\ \E i \in Generated : Commits(i) = 1
    /\ OnDisk.tokensCreated >= 1

Recorded(i) == Completed(i) \/ tpc[i] = "failedSell"

C8_LockReleased ==
    /\ \A w \in Wallets :
          isLocked(locks, w) => \E i \in Generated : Running(i) /\ WalletOf(i) = w
    /\ runPc = "done" => \A w \in Wallets : ~isLocked(locks, w)

\* the run has ended after a task failed in updateState and another task
\* completed
C8_Witness ==
    /\ runPc = "done"
    /\ \E i \in Generated : tpc[i] = "failedUpdate"
    /\ \E i \in Generated : Completed(i)

\* C9: runScheduler never throws because of a task, and it ends only when
\* every generated task is Completed or Failed.
C9_FailureIsolation ==
    /\ runPc # "threwTask"
    /\ runPc = "done" => \A i \in Generated : Terminal(i)

\* a sequential run has ended whose first task Failed and whose second task
\* Completed
C9_Witness ==
    /\ runPc = "done"
    /\ cfg.executionMode = "sequential"
    /\ Len(sortedTasks) >= 2
    /\ Failed(sortedTasks[1])
    /\ Completed(sortedTasks[2])

\* C10 as claimed: the summary of a parallel run reports the number of
\* dispatched tasks, of Completed tasks and of Failed tasks.
C10_SummaryIsAggregate ==
    (runPc = "done" /\ cfg.executionMode = "parallel" /\ Len(tasks) > 0)
    => /\ summary.total = Len(tasks)
       /\ summary.successes = Cardinality({i \in Generated : Completed(i)})
       /\ summary.failures = Cardinality({i \in Generated : Failed(i)})

\* C11: on each start the scheduler generates exactly totalTokensToCreate
\* minus the loaded tokensCreated tasks, and when every one of them has
\* succeeded the record on disk has tokensCreated = totalTokensToCreate
C11_RemainingGenerated ==
    /\ runPc \in {"running", "done"} =>
          Len(tasks) = cfg.totalTokensToCreate - AtStart.tokensCreated
    /\ (runPc = "done" /\ \A i \in Generated : Completed(i)) =>
          OnDisk.tokensCreated = cfg.totalTokensToCreate

C11_Witness ==
    /\ resumed
    /\ runPc = "done"
    /\ AtStart.tokensCreated >= 1
    /\ Len(tasks) >= 1
    /\ \A i \in Generated : Completed(i)

\* C12: after a stop with k records committed, a fresh start generates
\* total - k tasks whose scheduled times are the first run's start timestamp
\* plus their offsets; and no step of a run (the start-time save, an
\* updateState of a task) changes a start timestamp that is set
C12_ResumeAnchored ==
    [][/\ StartStamp(file) # 0 => StartStamp(file') = StartStamp(file)
       /\ (resumed' /\ runPc' \in {"running", "done"}) =>
             /\ Len(tasks') =
                   cfg.totalTokensToCreate - (prior'.loaded + prior'.commits)
             /\ prior'.startTime # 0 =>
                   \A k \in 1 .. Len(tasks') :
                      tasks'[k].scheduledTime =
                         Plus(Whole(prior'.startTime), tasks'[k].delayMs)]_vars

C12_Witness ==
    /\ resumed
    /\ runPc = "running"
    /\ prior.loaded = 0
    /\ prior.commits = 1
    /\ Len(tasks) = 1
    /\ prior.startTime # 0
    /\ prior.startTime < now
    /\ HasField(OnDisk, "lastCreatedAt")

\* C13: when the loaded tokensCreated equals totalTokensToCreate the run
\* generates and dispatches nothing: no createToken or sellTokens call, no
\* wallet lock, and the counter and the list on disk stay as loaded
C13_NothingRemaining ==
    (runPc \notin {"init", "off"}
        /\ AtStart.tokensCreated = cfg.totalTokensToCreate) =>
       /\ tasks = <<>>
       /\ \A i \in TaskIds : tpc[i] = "none" /\ creates[i] = 0 /\ attempt[i] = 0
       /\ \A w \in Wallets : ~isLocked(locks, w)
       /\ DOMAIN locks = {}
       /\ writes[ResetCaller] = 0 =>
             /\ OnDisk.tokensCreated = AtStart.tokensCreated
             /\ OnDisk.createdTokens = AtStart.createdTokens

C13_Witness ==
    /\ runPc = "done"
    /\ AtStart.tokensCreated = cfg.totalTokensToCreate
    /\ writes[ResetCaller] = 0
    /\ call[ResetCaller].pc = "granted"

\* C17: a task invokes createToken at most once in a run, so the create
\* invocations of a run never outnumber the generated tasks
C17_CreateAtMostOnce ==
    /\ \A i \in TaskIds : creates[i] <= 1
    /\ \A i \in TaskIds \ Generated : creates[i] = 0
    /\ Sum(creates, TaskIds) <= Len(tasks)

C17_Witness ==
    /\ runPc = "done"
    /\ Len(tasks) = MaxTasks
    /\ \E i \in Generated : tpc[i] = "failedCreate" /\ creates[i] = 1
    /\ \E i \in Generated : Completed(i)
    /\ Sum(creates, TaskIds) = Len(tasks)

\* C14: when fn fails on its first k-1 invocations and succeeds on the
\* k-th (1 <= k <= maxRetries), withRetry has invoked it exactly k times,
\* has slept k-1 times for retryDelay*1 .. retryDelay*(k-1) in that order,
\* returns the k-th result, and does nothing after the success
C14_RetrySuccess ==
    rt.pc = "returned" =>
       LET k == Len(rt.errors) + 1
       IN  /\ 1 <= k /\ k <= rt.maxRetries
           /\ rt.calls = k
           /\ rt.sleeps = [j \in 1 .. (k - 1) |-> rt.retryDelay * j]
           /\ rt.result = [kind |-> "value", value |-> <<"v", k>>]
           /\ ~ENABLED NextRetry

C14_Witness ==
    /\ rt.pc = "returned"
    /\ rt.maxRetries = 3
    /\ rt.retryDelay = 5
    /\ Len(rt.errors) = 2
    /\ rt.sleeps = <<5, 10>>

\* C15: when fn fails on every invocation and maxRetries >= 1, withRetry
\* has invoked it exactly maxRetries times, has not slept after the last
\* failure, and throws an error carrying the task name, the attempt count
\* and the message of the last failure
C15_RetryExhausted ==
    (rt.pc = "threw" /\ rt.maxRetries >= 1) =>
       /\ rt.calls = rt.maxRetries
       /\ Len(rt.errors) = rt.maxRetries
       /\ Len(rt.sleeps) = rt.maxRetries - 1
       /\ rt.result = [kind |-> "error", taskName |-> "T",
                       attempts |-> rt.maxRetries,
                       message |-> rt.errors[Len(rt.errors)]]
       /\ ~ENABLED NextRetry

C15_Witness ==
    /\ rt.pc = "threw"
    /\ rt.maxRetries = 3
    /\ rt.calls = 3
    /\ rt.errors = <<"e1", "e1", "e2">>
    /\ rt.result.message = "e2"

\* C16: the delay before each further attempt is at least twice the
\* delay before the attempt preceding it (exponential backoff)
C16_ExponentialBackoff ==
    \A j \in 2 .. Len(rt.sleeps) : rt.sleeps[j] >= 2 * rt.sleeps[j - 1]

\* C18: in both modes generateTasks returns exactly totalTokens tasks whose
\* tokenIndex values are 0 .. totalTokens-1, each once, with every
\* walletIndex in [0, numWallets) and equal to tokenIndex mod numWallets
C18_TasksAndWallets ==
    (gen.pc = "done" /\ gen.totalTokens >= 1 /\ gen.numWallets >= 1
        /\ gen.metadata # {}) =>
       /\ Len(gen.out) = gen.totalTokens
       /\ {gen.out[k].tokenIndex : k \in 1 .. Len(gen.out)}
             = 0 .. (gen.totalTokens - 1)
       /\ \A j, k \in 1 .. Len(gen.out) :
             gen.out[j].tokenIndex = gen.out[k].tokenIndex => j = k
       /\ \A k \in 1 .. Len(gen.out) :
             /\ gen.out[k].walletIndex \in 0 .. (gen.numWallets - 1)
             /\ gen.out[k].walletIndex = gen.out[k].tokenIndex % gen.numWallets

C18_Witness ==
    /\ gen.pc = "done"
    /\ cfg.executionMode = "sequential"
    /\ gen.totalTokens = 3
    /\ gen.numWallets = 2
    /\ gen.out[3].walletIndex = 0
    /\ gen.out[1].metadata # gen.out[2].metadata

C20_SequentialOffsets ==
    (gen.pc = "done" /\ cfg.executionMode = "sequential"
        /\ cfg.delayRandomness = 0) =>
       /\ \A k \in 1 .. Len(gen.out) :
             LET t == gen.out[k]
             IN  /\ t.delayMs.num * gen.totalTokens
                       = t.tokenIndex * gen.durationMs * t.delayMs.den
                 /\ t.scheduledTime = Plus(Whole(gen.startTime), t.delayMs)
                 /\ ~Less(t.delayMs, Whole(0))
                 /\ Less(t.delayMs, Whole(gen.durationMs))
       /\ \A k \in 1 .. (Len(gen.out) - 1) :
             Less(gen.out[k].delayMs, gen.out[k + 1].delayMs)

C20_Witness ==
    /\ gen.pc = "done"
    /\ cfg.executionMode = "sequential"
    /\ cfg.delayRandomness = 0
    /\ gen.totalTokens = 3
    /\ gen.durationMs = 2
    /\ gen.out[2].delayMs = [num |-> 2, den |-> 3]
    /\ gen.out[3].delayMs = [num |-> 4, den |-> 3]

\* C22: tryAcquire(w) returns true and marks w busy iff w was not busy
\* (never seen counts as not busy); on a busy w it returns false and leaves
\* the table as it was; after release(w) the next tryAcquire(w) returns
\* true; no call changes the busy flag of another index
C22_TryAcquire ==
    /\ lk.op = "tryAcquire" =>
          /\ lk.result <=> ~LockGet(lk.before, lk.w)
          /\ lk.result => LockGet(locks, lk.w)
          /\ ~lk.result => locks = lk.before
          /\ lk.wasFreed => lk.result
    /\ \A v \in LockIndexes \ {lk.w} : LockGet(locks, v) = LockGet(lk.before, v)

C22_Witness ==
    /\ lk.op = "tryAcquire"
    /\ lk.w = 1
    /\ lk.result
    /\ lk.wasFreed
    /\ lk.prevOp = "isLocked"
    /\ LockGet(locks, 0)
    /\ 2 \notin DOMAIN locks

\* C23: release of an index that is free or was never acquired leaves it
\* not busy and changes no flag, a second release in a row changes nothing,
\* and isLocked returns the flag and leaves the table as it was
C23_ReleaseIdempotent ==
    /\ lk.op = "release" =>
          /\ ~LockGet(locks, lk.w)
          /\ ~LockGet(lk.before, lk.w) =>
                \A v \in LockIndexes : LockGet(locks, v) = LockGet(lk.before, v)
          /\ (lk.prevOp = "release" /\ lk.prevW = lk.w) => locks = lk.before
    /\ lk.op = "isLocked" =>
          /\ locks = lk.before
          /\ lk.result = LockGet(lk.before, lk.w)

C23_Witness ==
    /\ lk.op = "release"
    /\ lk.prevOp = "release"
    /\ lk.prevW = lk.w
    /\ lk.w \notin DOMAIN lk.before \/ ~lk.before[lk.w]
    /\ \E v \in LockIndexes : LockGet(locks, v)

\* C21: generateTasks fails with an invalid-input error, returning no task
\* list, when totalTokens < 1, numWallets < 1 or the metadata pool is empty
C21_InvalidInputRejected ==
    (gen.pc # "idle"
        /\ (gen.totalTokens < 1 \/ gen.numWallets < 1 \/ gen.metadata = {})) =>
       gen.pc = "threw"

\* C24: loadState returns the empty record when there is no state file; on
\* a file that does not parse it throws: runScheduler fails at once, no
\* task is generated, no empty record is substituted and the run does not
\* write the file
C24_LoadState ==
    /\ (file0 = NoFile /\ runPc # "init") =>
          /\ mem.tokensCreated = 0
          /\ mem.createdTokens = <<>>
    /\ file0 = CorruptFile =>
          /\ runPc \in {"init", "threwLoad"}
          /\ runPc = "threwLoad" => ~ENABLED RunStart
          /\ mem = EmptyState
          /\ tasks = <<>>
          /\ \A i \in TaskIds : tpc[i] = "none" /\ creates[i] = 0
          /\ writes[RunnerId] = 0
          /\ writes[ResetCaller] = 0 => file = CorruptFile

C24_Witness ==
    /\ file0 = CorruptFile
    /\ runPc = "threwLoad"
    /\ file = CorruptFile

\* C25: in sequential mode tasks are dispatched one at a time in
\* non-decreasing scheduledTime order, each only after the task dispatched
\* before it is Completed or Failed, so at most one task is past Pending
\* and not yet terminal
C25_SequentialOrder ==
    (cfg.executionMode = "sequential" /\ runPc \in {"running", "done"}) =>
       /\ {sortedTasks[r] : r \in 1 .. Len(sortedTasks)} = Generated
       /\ Len(sortedTasks) = Len(tasks)
       /\ \A r \in 1 .. (Len(sortedTasks) - 1) :
             ~Less(Task(sortedTasks[r + 1]).scheduledTime,
                   Task(sortedTasks[r]).scheduledTime)
       /\ \A r \in 1 .. Len(sortedTasks) :
             /\ tpc[sortedTasks[r]] = "pending" <=> r > seqPos
             /\ r < seqPos => Terminal(sortedTasks[r])
       /\ Cardinality({i \in Generated : tpc[i] # "pending" /\ ~Terminal(i)}) <= 1

C25_Witness ==
    /\ cfg.executionMode = "sequential"
    /\ cfg.delayRandomness = 100
    /\ runPc = "running"
    /\ seqPos = 2
    /\ Failed(sortedTasks[1])
    /\ Running(sortedTasks[2])
    /\ Task(sortedTasks[1]).scheduledTime = Task(sortedTasks[2]).scheduledTime

\* the stage of a task: Pending, Waiting, WaitingForResource, Running,
\* Completed or Failed
Stage(pc) ==
    CASE pc \in {"none", "pending"} -> 0
      [] pc = "waiting" -> 1
      [] pc = "polling" -> 2
      [] pc \in {"creating", "updating", "selling", "backoff"} -> 3
      [] OTHER -> 4

\* C26: a task moves through Pending, Waiting, WaitingForResource, Running
\* and Completed or Failed in that order and never back; it does not try
\* its wallet lock before the clock has reached its scheduledTime, it runs
\* the workflow only while its wallet is marked busy, and once terminal it
\* takes no further step
C26_TaskStateMachine ==
    [][\A i \in TaskIds :
         /\ Stage(tpc'[i]) >= Stage(tpc[i])
         /\ Stage(tpc[i]) = 4 =>
               /\ tpc'[i] = tpc[i]
               /\ attempt'[i] = attempt[i]
               /\ creates'[i] = creates[i]
               /\ writes'[TaskCaller(i)] = writes[TaskCaller(i)]
         /\ Stage(tpc'[i]) \in {2, 3} =>
               ~Less(Whole(now'), tasks'[i + 1].scheduledTime)
         /\ Stage(tpc'[i]) = 3 =>
               isLocked(locks', tasks'[i + 1].walletIndex)]_vars

C26_Witness ==
    /\ cfg.executionMode = "parallel"
    /\ Len(tasks) = 2
    /\ Task(1).scheduledTime = Whole(2)
    /\ Task(0).walletIndex = Task(1).walletIndex
    /\ tpc[0] = "selling"
    /\ tpc[1] = "polling"
    /\ now = 2

\* C29: the sell step is invoked only after the task's create has succeeded
\* and its record has been committed, and only when sellPercentage > 0; a
\* task invokes it at most maxRetries times; with sellPercentage = 0 it is
\* never invoked and the task never enters or fails in the sell step
C29_SellStep ==
    \A i \in TaskIds :
        /\ attempt[i] <= cfg.maxRetries
        /\ tpc[i] \in {"selling", "backoff"} => attempt[i] >= 1
        /\ attempt[i] >= 1 =>
              /\ cfg.sellPercentage > 0
              /\ creates[i] = 1
              /\ Commits(i) = 1
        /\ cfg.sellPercentage = 0 =>
              /\ attempt[i] = 0
              /\ tpc[i] \notin {"selling", "backoff", "failedSell"}
              /\ (Terminal(i) /\ Commits(i) = 1) => Completed(i)

\* C29: with sellPercentage = 0 the step that sees the record committed
\* completes the task
C29_CompletedAtOnce ==
    [][\A i \in TaskIds :
         (cfg.sellPercentage = 0 /\ tpc[i] = "updating" /\ tpc'[i] # tpc[i]
            /\ Commits(i) = 1) => tpc'[i] = "completed"]_vars

C29_Witness ==
    \E i \in Generated :
        /\ cfg.sellPercentage > 0
        /\ cfg.maxRetries = 2
        /\ attempt[i] = 2
        /\ tpc[i] = "failedSell"

C29_WitnessNoSell ==
    \E i \in Generated :
        /\ cfg.sellPercentage = 0
        /\ Completed(i)
        /\ Commits(i) = 1

\* C30: a step in which an updateState call commits leaves the previous
\* on-disk createdTokens list as an unchanged prefix of the new one and adds
\* exactly one entry at its end
C30_AppendOnly ==
    [][\A c \in Callers :
         (call[c].op = "update" /\ writes'[c] = writes[c] + 1) =>
            LET old == loadState(file).createdTokens
                new == loadState(file').createdTokens
            IN  /\ Len(new) = Len(old) + 1
                /\ SubSeq(new, 1, Len(old)) = old
                /\ new[Len(new)].tokenAddress = call[c].updater.tokenAddress]_vars

\* two tasks running side by side have both committed, the second task
\* first
C30_Witness ==
    /\ cfg.executionMode = "parallel"
    /\ Commits(0) = 1
    /\ Commits(1) = 1
    /\ Len(OnDisk.createdTokens) = 2
    /\ OnDisk.createdTokens[1].tokenAddress = <<"new", 1>>
    /\ OnDisk.createdTokens[2].tokenAddress = <<"new", 0>>

\* runScheduler has returned or thrown
RunReturned == runPc \in {"done", "threwLoad", "threwSave", "threwTask"}

Dispatched(i) == i \in Generated /\ Stage(tpc[i]) >= 1

\* C27: when every timer fires and every external call settles, each
\* dispatched task reaches Completed or Failed, a task polling for a busy
\* wallet among them, and runScheduler returns: the run reaches a state in
\* which runScheduler has returned and every generated task is terminal
C27_Termination ==
    <>(RunReturned /\ \A i \in Generated : Terminal(i))

\* a task polls for the wallet of a task that is between two sell attempts
C27_Witness ==
    \E i, j \in Generated :
        /\ WalletOf(i) = WalletOf(j)
        /\ tpc[i] = "backoff"
        /\ tpc[j] = "polling"

\* runScheduler has dispatched its tasks, or has ended without any
Started == runPc \in {"running", "done", "threwLoad", "threwSave", "threwTask"}

\* C28 as stated: in parallel mode, whichever task k has an external call
\* that never returns, every other dispatched task reaches Completed or
\* Failed when the calls of the tasks other than k return
C28_SiblingsUnblocked ==
    \A k \in TaskIds :
        WF_vars(CallsReturnExcept(k)) =>
            <>(cfg.executionMode = "parallel" =>
                  /\ Started
                  /\ \A i \in Generated \ {k} : Terminal(i))

\* C28 amended: in parallel mode, whichever task k has an external call
\* that never returns, every other dispatched task that is assigned to a
\* wallet other than k's reaches Completed or Failed when the calls of the
\* tasks other than k return
C28_Amended ==
    \A k \in TaskIds :
        WF_vars(CallsReturnExcept(k)) =>
            <>(cfg.executionMode = "parallel" =>
                  /\ Started
                  /\ \A i \in Generated \ {k} :
                        (k \in Generated => WalletOf(i) # WalletOf(k))
                           => Terminal(i))

\* the first task is in its createToken call and the second task, on the
\* other wallet, has completed
C28_Witness ==
    /\ cfg.executionMode = "parallel"
    /\ Len(tasks) = 2
    /\ WalletOf(0) # WalletOf(1)
    /\ tpc[0] = "creating"
    /\ Completed(1)

C32_JitterBounds ==
    (gen.pc = "done" /\ cfg.executionMode = "sequential"
        /\ cfg.delayRandomness > 0) =>
       \A k \in 1 .. Len(gen.out) :
          LET t == gen.out[k]
              i == k - 1
              r == cfg.delayRandomness
              lower == (i * gen.durationMs * (100 - r)) \div (gen.totalTokens * 100)
              upper == Ratio(i * gen.durationMs * (100 + r), gen.totalTokens * 100)
          IN  /\ ~Less(t.delayMs, Whole(lower))
              /\ ~Less(upper, t.delayMs)
              /\ ~Less(t.delayMs, Whole(0))
              /\ i = 0 => t.delayMs = Whole(0)
              /\ t.scheduledTime = Plus(Whole(gen.startTime), t.delayMs)

\* with r = 0.5, three tasks over 3 ms: task 2 (base 2) is given the lowest
\* offset it can have, 1, and task 1 (base 1) the offset 0
C32_Witness ==
    /\ gen.pc = "done"
    /\ cfg.executionMode = "sequential"
    /\ cfg.delayRandomness = 50
    /\ gen.totalTokens = 3
    /\ gen.durationMs = 3
    /\ gen.out[1].delayMs = Whole(0)
    /\ gen.out[2].delayMs = Whole(0)
    /\ gen.out[3].delayMs = Whole(1)

\* C33: a tryAcquire is decided by the wallet's busy flag alone, whatever
\* the scheduled times and the order of arrival of the other tasks: a task
\* starts to poll only for a wallet that is busy, and a task that tries a
\* free wallet gets it, also while a task that arrived earlier is polling
\* for it
C33_NoOrderKept ==
    [][\A i \in TaskIds :
         /\ (tpc[i] # "polling" /\ tpc'[i] = "polling") =>
               isLocked(locks', tasks'[i + 1].walletIndex)
         /\ (tpc[i] \in {"waiting", "polling"} /\ tpc'[i] # tpc[i]) =>
               IF isLocked(locks, Task(i).walletIndex)
                 THEN tpc'[i] = "polling"
                 ELSE tpc'[i] = "creating"]_vars

\* a task has completed while a task with an earlier scheduledTime is still
\* polling for its wallet, which another task holds
C33_Witness ==
    \E c, p, h \in Generated :
        /\ cfg.executionMode = "parallel"
        /\ Less(Task(p).scheduledTime, Task(c).scheduledTime)
        /\ WalletOf(c) # WalletOf(p)
        /\ Completed(c)
        /\ tpc[p] = "polling"
        /\ WalletOf(h) = WalletOf(p)
        /\ Running(h)

\* a task is polling for a wallet that a task which arrived after it has
\* acquired and still holds
C33_WitnessOvertaken ==
    \E i, j \in Generated :
        /\ i \in pollHist.overtaken
        /\ tpc[i] = "polling"
        /\ WalletOf(j) = WalletOf(i)
        /\ Less(Task(i).scheduledTime, Task(j).scheduledTime)
        /\ Running(j)

\* C34: when resetState has returned to its caller, its write of the empty
\* record has executed
C34_ResetWrittenOnReturn ==
    \A c \in ExtCallers :
        (call[c].op = "save" /\ call[c].pc # "idle") => writes[c] = 1

\* C34, the write itself: the step in which resetState's write executes
\* leaves a file from which loadState returns tokensCreated 0, an empty
\* createdTokens and no startTime
C34_WriteEmpties ==
    [][\A c \in ExtCallers :
         (call[c].op = "save" /\ writes'[c] = writes[c] + 1) =>
            /\ loadState(file') = EmptyState
            /\ ~HasField(loadState(file'), "startTime")]_vars

\* the records the tasks of the running process have committed
RunCommits == Sum([i \in TaskIds |-> writes[TaskCaller(i)]], TaskIds)

\* C35: with the configuration unchanged, across a run, a stop and a fresh
\* start, the on-disk tokensCreated and the number of records on disk never
\* exceed totalTokensToCreate, and neither does the number of records
\* committed by all runs together (those the first start found on disk, those
\* of the stopped run and those of the running one)
C35_NeverOverTotal ==
    /\ OnDisk.tokensCreated <= cfg.totalTokensToCreate
    /\ Len(OnDisk.createdTokens) <= cfg.totalTokensToCreate
    /\ AtStart.tokensCreated + RunCommits <= cfg.totalTokensToCreate
    /\ resumed =>
          /\ AtStart.tokensCreated = prior.loaded + prior.commits
          /\ prior.loaded + prior.commits + RunCommits <= cfg.totalTokensToCreate

\* the run that was stopped had committed one record, the run started after
\* it has committed the last one
C35_Witness ==
    /\ resumed
    /\ prior.loaded = 0
    /\ prior.commits = 1
    /\ RunCommits = cfg.totalTokensToCreate - 1
    /\ OnDisk.tokensCreated = cfg.totalTokensToCreate
    /\ \E i \in Generated : tpc[i] = "updating"

\* createToken has returned for task i
CreateSucceeded(i) ==
    tpc[i] \in {"updating", "selling", "backoff", "completed", "failedUpdate",
                "failedSell"}

\* the record of task i is in the state file
RecordOnDisk(i) ==
    \E k \in 1 .. Len(OnDisk.createdTokens) :
        OnDisk.createdTokens[k].tokenAddress = <<"new", i>>

\* C36: whenever a wallet is not busy, every task of that wallet whose
\* createToken has succeeded in this run either has its record on disk or
\* has Failed in updateState (resetState not having wiped the file); and a
\* task whose updateState is under way holds its wallet's lock
C36_CommitUnderLock ==
    \A i \in Generated :
        /\ (/\ ~isLocked(locks, WalletOf(i))
            /\ CreateSucceeded(i)
            /\ writes[ResetCaller] = 0) =>
               (RecordOnDisk(i) \/ tpc[i] = "failedUpdate")
        /\ tpc[i] = "updating" => isLocked(locks, WalletOf(i))

\* a wallet is free again after a task committed on it and failed in the
\* sell step, and after the other task of the wallet failed in updateState
C36_Witness ==
    \E i, j \in Generated :
        /\ WalletOf(i) = WalletOf(j)
        /\ ~isLocked(locks, WalletOf(i))
        /\ writes[ResetCaller] = 0
        /\ tpc[i] = "failedSell"
        /\ RecordOnDisk(i)
        /\ tpc[j] = "failedUpdate"
        /\ ~RecordOnDisk(j)

TerminalPcs == {"completed", "failedCreate", "failedUpdate", "failedSell"}

\* C37: release(w) runs only in the finally block of a task that got true
\* from tryAcquire(w) and has held w since: a task that ends was running
\* with its wallet busy, and a wallet goes from busy to free only in the
\* step that ends the one task running on it
C37_ReleasedByHolder ==
    [][/\ \A i \in Generated :
             (~Terminal(i) /\ tpc'[i] \in TerminalPcs) =>
                /\ Running(i)
                /\ isLocked(locks, WalletOf(i))
                /\ \A j \in Generated \ {i} :
                      WalletOf(j) = WalletOf(i) => ~Running(j)
       /\ \A w \in Wallets :
             (isLocked(locks, w) /\ ~isLocked(locks', w)) =>
                \E i \in Generated :
                   /\ WalletOf(i) = w
                   /\ Running(i)
                   /\ tpc'[i] \in TerminalPcs]_vars

\* a task has failed and released its wallet while the other wallet is held
\* by a task that is running
C37_Witness ==
    \E i, j \in Generated :
        /\ WalletOf(i) # WalletOf(j)
        /\ tpc[i] = "failedCreate"
        /\ ~isLocked(locks, WalletOf(i))
        /\ tpc[j] = "updating"
        /\ isLocked(locks, WalletOf(j))

QueuedCallers == {queue[k] : k \in 1 .. Len(queue)}

\* C38: withLock releases the section whatever the body did: when no caller
\* has the section (handed to it, body running, or release pending) the lock
\* is free and nobody is queued, so a call made after a failed one enters;
\* the lock is never free while a caller is queued, and the queue holds
\* exactly the callers that wait
C38_SectionReleased ==
    /\ (\A c \in Callers : ~InSection(c)) => (~locked /\ queue = <<>>)
    /\ (\E c \in Callers : InSection(c)) => locked
    /\ ~locked => queue = <<>>
    /\ QueuedCallers = {c \in Callers : call[c].pc = "queued"}
    /\ \A c \in Callers :
          (call[c].pc = "returned" /\ call[c].err = "none") => writes[c] = 1

\* an updateState has failed on a malformed file, another on its updater; a
\* resetState called after them has entered the section and written, and the
\* lock is free again
C38_Witness ==
    \E a, b, c \in ExtCallers :
        /\ call[a].pc = "returned" /\ call[a].err = "load"
        /\ call[b].pc = "returned" /\ call[b].err = "updater"
        /\ call[c].pc = "returned" /\ call[c].op = "save" /\ writes[c] = 1
        /\ file = JSONStringify(EmptyState)
        /\ ~locked
        /\ queue = <<>>

DispatchedPcs == {"running", "done"}

\* C39: once runScheduler has dispatched, it writes nothing: its only
\* saveState call is the start-time save before generateTasks.  From then on
\* the state file changes only in the write of a task's updateState, which
\* adds one record to what is on disk and keeps the records before it, and
\* the record runScheduler holds keeps the tokensCreated it loaded.
C39_NoStaleWrite ==
    [][(runPc \in DispatchedPcs /\ runPc' \in DispatchedPcs) =>
          /\ mem' = mem
          /\ mem.tokensCreated = AtStart.tokensCreated
          /\ writes'[RunnerId] = writes[RunnerId]
          /\ call'[RunnerId] = call[RunnerId]
          /\ call[RunnerId].pc \in {"idle", "returned"}
          /\ file' # file =>
                \E i \in Generated :
                    /\ tpc[i] = "updating"
                    /\ call[TaskCaller(i)].op = "update"
                    /\ writes' = [writes EXCEPT ![TaskCaller(i)] = @ + 1]
                    /\ LET before == loadState(file).createdTokens
                           after == loadState(file').createdTokens
                       IN  /\ Len(after) = Len(before) + 1
                           /\ \A k \in 1 .. Len(before) : after[k] = before[k]
                    /\ loadState(file').tokensCreated =
                           loadState(file).tokensCreated + 1]_vars

\* a run that saved its start time, dispatched and returned, with two
\* commits on disk and none in the scheduler's record
C39_Witness ==
    /\ runPc = "done"
    /\ writes[RunnerId] = 1
    /\ Cardinality({i \in Generated : Commits(i) = 1}) = 2
    /\ loadState(file).tokensCreated = mem.tokensCreated + 2
    /\ mem.tokensCreated = AtStart.tokensCreated

\* C40: withRetry with maxRetries <= 0 never calls fn and sets no timer: it
\* throws `${taskName} failed after ${maxRetries} attempts`, with no
\* underlying message.  With the sell step configured a task then never
\* calls sellTokens and never completes, and it fails in the sell step only
\* when its updateState has settled with its record written.
C40_NoAttempts ==
    /\ (rt.maxRetries <= 0 /\ rt.pc # "idle") =>
          /\ rt.pc = "threw"
          /\ rt.calls = 0
          /\ rt.sleeps = <<>>
          /\ rt.errors = <<>>
          /\ rt.result = NeverTriedError("T", rt.maxRetries)
    /\ (cfg.maxRetries <= 0 /\ SellConfigured(cfg.sellPercentage)) =>
          \A i \in Generated :
              /\ tpc[i] \notin {"selling", "backoff", "completed"}
              /\ attempt[i] = 0
              /\ tpc[i] = "failedSell" =>
                    /\ Commits(i) = 1
                    /\ RecordOnDisk(i)
                    /\ call[TaskCaller(i)].pc = "returned"
                    /\ call[TaskCaller(i)].err = "none"

\* MAX_RETRIES=0: withRetry has thrown without a call, and both tasks of the
\* run have failed in the sell step with their records on disk
C40_Witness ==
    /\ cfg.maxRetries = 0
    /\ rt.pc = "threw"
    /\ rt.calls = 0
    /\ Len(tasks) = 2
    /\ \A i \in Generated : tpc[i] = "failedSell" /\ RecordOnDisk(i)
    /\ loadState(file).tokensCreated = AtStart.tokensCreated + 2

\* the same with a negative MAX_RETRIES
C40_WitnessNegative ==
    /\ cfg.maxRetries < 0
    /\ rt.result = NeverTriedError("T", 0 - 1)
    /\ \E i \in Generated : tpc[i] = "failedSell" /\ RecordOnDisk(i)

====
